---- MODULE Spec2Model ----
(***************************************************************************)
(* Model of the Porta stable-data validator.                                *)
(*                                                                          *)
(*   src/validators.py             the validator functions                  *)
(*   src/validate_charger_usages.py  the script: main() and its own,        *)
(*                                 inlined, copy of the checks              *)
(*                                                                          *)
(* Two specifications share the variables:                                  *)
(*   Spec      draws one usage snapshot and applies a validator function    *)
(*             of validators.py to it;                                      *)
(*   MainSpec  runs main() of validate_charger_usages.py over a charger     *)
(*             list, one action per step of its loops.                      *)
(*                                                                          *)
(* Data representation.  A Python value that may be None (a missing key     *)
(* read with dict.get) is a sequence of length 0 (None) or 1 (<<n>>, the    *)
(* integer n).  A stall is the sequence of its connectors' statuses.  A     *)
(* string key that is missing from a mapping is the marker Absent.          *)
(***************************************************************************)
EXTENDS Integers, Sequences, FiniteSets, TLC

\* ------------------------------------------------------------------ bounds
MaxStalls == 3        \* stalls in one snapshot
MaxConnectors == 3    \* connectors in one snapshot, over all its stalls
MaxReported == 2      \* largest reported stallsAvailable / totalStalls
MaxChargers == 2      \* charger ids in the list
MaxUsageDocs == 2     \* usage documents of one charger

\* ------------------------------------------------------------- input values
None == <<>>
Some(n) == <<n>>
Absent == "<absent>"

\* -2: data unavailable, 0: available, 1: any other known status
Statuses == {-2, 0, 1}

\* The names pytz.timezone() accepts, of which two stand for the database.
IanaTimezones == {"America/Los_Angeles", "UTC"}

Timezones == {Absent, "", "America/Los_Angeles", "Mars/Phobos"}
Timestamps == {Absent, "t1"}
Reported == {None} \cup {Some(n) : n \in 0..MaxReported}

RECURSIVE ConnectorSeqs(_)
\* the connector-status sequences of exactly n connectors
ConnectorSeqs(n) ==
    IF n = 0 THEN {<<>>}
    ELSE {<<s>> \o c : s \in Statuses, c \in ConnectorSeqs(n - 1)}

RECURSIVE StallUsages(_, _)
\* the stallUsage lists of at most k stalls with at most n connectors in all
StallUsages(k, n) ==
    IF k = 0 THEN {<<>>}
    ELSE {<<>>} \cup
         UNION {{<<c>> \o rest : c \in ConnectorSeqs(m),
                                 rest \in StallUsages(k - 1, n - m)} : m \in 0..n}

UsageSnapshots ==
    [timestamp : Timestamps,
     timezone : Timezones,
     stallsAvailable : Reported,
     totalStalls : Reported,
     stallUsage : StallUsages(MaxStalls, MaxConnectors)]

\* ------------------------------------------------------------ validators.py
Error(error_type, message, timestamp) ==
    [error_type |-> error_type, message |-> message, timestamp |-> timestamp]

\* usage_data.get('timestamp', 'Unknown Timestamp')
GetTimestamp(ud) ==
    IF ud.timestamp = Absent THEN "Unknown Timestamp" ELSE ud.timestamp

validate_timezone_Always(timezone_str) == TRUE

validate_timezone(timezone_str) == timezone_str \in IanaTimezones

\* `not timezone`: the key is missing (None) or the string is empty
TimezoneFalsy(timezone) == timezone = Absent \/ timezone = ""

validate_timezone_data(ud) ==
    LET timestamp == GetTimestamp(ud)
        timezone == ud.timezone
    IN  IF TimezoneFalsy(timezone)
        THEN <<Error("Timezone Missing",
                     [text |-> "Timezone missing in usage data", at |-> timestamp],
                     timestamp)>>
        ELSE IF ~validate_timezone(timezone)
        THEN <<Error("Invalid Timezone",
                     [text |-> "Invalid timezone", timezone |-> timezone,
                      at |-> timestamp],
                     timestamp)>>
        ELSE <<>>

RECURSIVE ScanFrom(_, _)
\* the connector loop from connector i on: stops at the first status that is not -2
ScanFrom(connectors, i) ==
    IF i > Len(connectors)
    THEN [stall_has_valid_status |-> FALSE, stall_available |-> FALSE]
    ELSE IF connectors[i] # -2
    THEN [stall_has_valid_status |-> TRUE, stall_available |-> connectors[i] = 0]
    ELSE ScanFrom(connectors, i + 1)

\* the older rule: any connector with status 0 makes the stall available,
\* and every stall counts
ScanConnectors_AnyZero(connectors) ==
    [stall_has_valid_status |-> TRUE,
     stall_available |-> \E j \in DOMAIN connectors : connectors[j] = 0]

ScanConnectors(connectors) == ScanFrom(connectors, 1)

RECURSIVE StallLoop(_, _, _)
\* the stall loop from stall i on, acc holding the three accumulators
StallLoop(stall_usage, i, acc) ==
    IF i > Len(stall_usage) THEN acc
    ELSE LET s == ScanConnectors(stall_usage[i])
         IN  StallLoop(stall_usage, i + 1,
               [total_stalls_calculated |->
                    acc.total_stalls_calculated
                    + (IF s.stall_has_valid_status THEN 1 ELSE 0),
                stalls_available_calculated |->
                    acc.stalls_available_calculated
                    + (IF s.stall_has_valid_status /\ s.stall_available THEN 1 ELSE 0),
                all_connectors_status_minus2 |->
                    acc.all_connectors_status_minus2 /\ ~s.stall_has_valid_status])

CountStalls(stall_usage) ==
    StallLoop(stall_usage, 1,
              [total_stalls_calculated |-> 0,
               stalls_available_calculated |-> 0,
               all_connectors_status_minus2 |-> TRUE])

SkipValidation_Never(counts) == FALSE

\* `if all_connectors_status_minus2: return errors`
SkipValidation(counts) == counts.all_connectors_status_minus2

Differs_Less(reported, calculated) ==
    reported = None \/ reported[1] < calculated

\* Python `reported != calculated`, reported possibly None
Differs(reported, calculated) == reported # Some(calculated)

stalls_not_available_reported_Swapped(total_stalls_reported, stalls_available_reported) ==
    stalls_available_reported - total_stalls_reported

stalls_not_available_reported(total_stalls_reported, stalls_available_reported) ==
    total_stalls_reported - stalls_available_reported

stalls_not_available_calculated_Total(total_calculated, available_calculated) ==
    total_calculated

stalls_not_available_calculated(total_calculated, available_calculated) ==
    total_calculated - available_calculated

\* the result of a call: the errors list and whether the call raised instead of
\* returning it (errors is then the list as it stood when the exception left)
Returned(errors, counts) ==
    [raised |-> FALSE, errors |-> errors, counts |-> counts]
Raised(errors, counts) ==
    [raised |-> TRUE, errors |-> errors, counts |-> counts]

validate_stalls_available(ud) ==
    LET timestamp == GetTimestamp(ud)
        stalls_available_reported == ud.stallsAvailable
        total_stalls_reported == ud.totalStalls
        counts == CountStalls(ud.stallUsage)
        total_calc == counts.total_stalls_calculated
        avail_calc == counts.stalls_available_calculated
        e1 == IF Differs(stalls_available_reported, avail_calc)
              THEN <<Error("Stalls Available Mismatch",
                           [text |-> "Stalls available mismatch", at |-> timestamp,
                            reported |-> stalls_available_reported,
                            calculated |-> avail_calc],
                           timestamp)>>
              ELSE <<>>
        e2 == IF Differs(total_stalls_reported, total_calc)
              THEN <<Error("Total Stalls Mismatch",
                           [text |-> "Total stalls mismatch", at |-> timestamp,
                            reported |-> total_stalls_reported,
                            calculated |-> total_calc],
                           timestamp)>>
              ELSE <<>>
    IN  IF SkipValidation(counts) THEN Returned(<<>>, counts)
        ELSE IF total_stalls_reported = None \/ stalls_available_reported = None
        THEN \* None - int, int - None, None - None: TypeError
             Raised(e1 \o e2, counts)
        ELSE
        LET nar == stalls_not_available_reported(total_stalls_reported[1],
                                                 stalls_available_reported[1])
            nac == stalls_not_available_calculated(total_calc, avail_calc)
            e3 == IF nar # nac
                  THEN <<Error("Stalls Not Available Mismatch",
                               [text |-> "Stalls not available mismatch",
                                at |-> timestamp,
                                reported |-> Some(nar), calculated |-> nac],
                               timestamp)>>
                  ELSE <<>>
            e4 == IF total_stalls_reported[1] # stalls_available_reported[1] + nar
                  THEN <<Error("Total Stalls Calculation Error",
                               [text |-> "Total stalls calculation error",
                                at |-> timestamp,
                                totalStalls |-> total_stalls_reported,
                                stallsAvailable |-> stalls_available_reported,
                                stallsNotAvailable |-> nar],
                               timestamp)>>
                  ELSE <<>>
        IN  Returned(e1 \o e2 \o e3 \o e4, counts)

\* ------------------------------------------- validate_charger_usages.py
\* the script's own copy of validate_timezone
main_validate_timezone(timezone_str) == timezone_str \in IanaTimezones

RECURSIVE CountAvailableFrom(_, _)
\* the script's stall loop from stall i on: a stall counts as available when
\* any of its connectors has status 0
CountAvailableFrom(stall_usage, i) ==
    IF i > Len(stall_usage) THEN 0
    ELSE (IF \E j \in DOMAIN stall_usage[i] : stall_usage[i][j] = 0 THEN 1 ELSE 0)
         + CountAvailableFrom(stall_usage, i + 1)

stalls_available_count(stall_usage) == CountAvailableFrom(stall_usage, 1)

\* the body of `for usage_data in usage_data_list`: the errors it appends to
\* charger_error_details (and counts in charger_errors), and whether it raised
main_usage_checks(ud) ==
    LET timestamp == GetTimestamp(ud)
        timezone == ud.timezone
        stalls_available_reported == ud.stallsAvailable
        total_stalls == ud.totalStalls
        stall_usage == ud.stallUsage
        tz == IF TimezoneFalsy(timezone)
              THEN <<Error("Timezone Missing",
                           [text |-> "Timezone missing in usage data",
                            at |-> timestamp],
                           timestamp)>>
              ELSE IF ~main_validate_timezone(timezone)
              THEN <<Error("Invalid Timezone",
                           [text |-> "Invalid timezone", timezone |-> timezone,
                            at |-> timestamp],
                           timestamp)>>
              ELSE <<>>
        count == stalls_available_count(stall_usage)
        e1 == IF Differs(stalls_available_reported, count)
              THEN <<Error("Stalls Available Mismatch",
                           [text |-> "Stalls available mismatch", at |-> timestamp,
                            reported |-> stalls_available_reported,
                            calculated |-> count],
                           timestamp)>>
              ELSE <<>>
        e2 == IF Differs(total_stalls, Len(stall_usage))
              THEN <<Error("Total Stalls Mismatch",
                           [text |-> "Total stalls mismatch", at |-> timestamp,
                            reported |-> total_stalls,
                            actual |-> Len(stall_usage)],
                           timestamp)>>
              ELSE <<>>
    IN  IF total_stalls = None \/ stalls_available_reported = None
        THEN \* total_stalls - stalls_available_reported: TypeError
             [raised |-> TRUE, errors |-> tz \o e1 \o e2]
        ELSE
        LET stalls_not_available == total_stalls[1] - stalls_available_reported[1]
            calculated_total_stalls ==
                stalls_available_reported[1] + stalls_not_available
            e3 == IF total_stalls[1] # calculated_total_stalls
                  THEN <<Error("Total Stalls Calculation Error",
                               [text |-> "Total stalls calculation error",
                                at |-> timestamp,
                                expected |-> total_stalls[1],
                                calculated |-> calculated_total_stalls],
                               timestamp)>>
                  ELSE <<>>
        IN  [raised |-> FALSE, errors |-> tz \o e1 \o e2 \o e3]

ErrorTypes ==
    {"API Errors", "Pricing Missing", "Timezone Missing", "Invalid Timezone",
     "Stalls Available Mismatch", "Total Stalls Mismatch",
     "Total Stalls Calculation Error"}

\* charger_errors = defaultdict(int)
NoErrors == [t \in ErrorTypes |-> 0]

RECURSIVE CountAll(_, _, _)
\* charger_errors[e['error_type']] += 1 for the errors es[i..]
CountAll(ce, es, i) ==
    IF i > Len(es) THEN ce
    ELSE CountAll([ce EXCEPT ![es[i].error_type] = @ + 1], es, i + 1)

RECURSIVE SumOver(_, _)
SumOver(ce, types) ==
    IF types = {} THEN 0
    ELSE LET t == CHOOSE x \in types : TRUE
         IN  ce[t] + SumOver(ce, types \ {t})

\* sum(charger_errors.values())
TotalErrors(ce) == SumOver(ce, ErrorTypes)

\* the charger records the usage fetch can return; address.get() defaults
\* apply to a missing address and to its missing fields alike
NoAddress == [fullThoroughfare |-> Absent, locality |-> Absent]
Address == [fullThoroughfare |-> "1 Main St", locality |-> "Fresno"]
Chargers ==
    {[name |-> Absent, address |-> NoAddress, pricing |-> FALSE],
     [name |-> "Station A", address |-> Address, pricing |-> FALSE],
     [name |-> "Station A", address |-> Address, pricing |-> TRUE]}

NoCharger == [name |-> Absent, address |-> NoAddress, pricing |-> FALSE]

charger_name(c) ==
    IF c.name = Absent THEN "Unknown Name" ELSE c.name

\* f"{full_thoroughfare}, {locality}"
location_str(c) ==
    <<IF c.address.fullThoroughfare = Absent
      THEN "Unknown Address" ELSE c.address.fullThoroughfare,
      IF c.address.locality = Absent
      THEN "Unknown Locality" ELSE c.address.locality>>

\* `if 'pricing' not in charger`
pricing_errors(c, charger_id) ==
    IF ~c.pricing
    THEN <<Error("Pricing Missing",
                 [text |-> "Pricing object missing for charger", id |-> charger_id],
                 "N/A")>>
    ELSE <<>>

Result(charger_id, name, location, docs, ce) ==
    [ChargerID |-> charger_id, Name |-> name, Location |-> location,
     UsageDocsProcessed |-> docs, TotalErrors |-> TotalErrors(ce)]

\* the usage documents drawn in a run of main(): the snapshots with a
\* timestamp, at most one stall of at most one connector, and reported
\* counts of at most one
MainUsageDocs ==
    {ud \in UsageSnapshots :
        /\ ud.timestamp # Absent
        /\ ud.timezone # ""
        /\ Len(ud.stallUsage) <= 1
        /\ \A s \in DOMAIN ud.stallUsage : Len(ud.stallUsage[s]) <= 1
        /\ ud.stallsAvailable \in {None, Some(0), Some(1)}
        /\ ud.totalStalls \in {None, Some(0), Some(1)}}

NoUsageData == [timestamp |-> Absent, timezone |-> Absent, stallsAvailable |-> None,
                totalStalls |-> None, stallUsage |-> <<>>]

\* ------------------------------------------------------------------- state
VARIABLES
    usage_data,                  \* the snapshot under validation
    called,                      \* the function last applied to usage_data
    errors,                      \* its errors list
    raised,                      \* TRUE when the call raised instead of returning
    total_stalls_calculated,     \* validate_stalls_available's locals at its end
    stalls_available_calculated,
    pc,                          \* main(): where the run stands
    charger,                     \* main(): data.get('charger', {}) of this charger
    charger_ids,                 \* main(): the fetched charger-id list
    next_charger,                \* main(): index in charger_ids of the next charger
    overall_results,
    charger_errors,
    charger_error_details,
    num_usage_docs,
    docs_left                    \* main(): elements of usage_data_list not yet read

valVars == <<called, errors, raised, total_stalls_calculated,
             stalls_available_calculated>>
mainVars == <<pc, charger, charger_ids, next_charger, overall_results,
              charger_errors, charger_error_details, num_usage_docs, docs_left>>
vars == <<usage_data, valVars, mainVars>>

ValIdle ==
    /\ called = "none"
    /\ errors = <<>>
    /\ raised = FALSE
    /\ total_stalls_calculated = 0
    /\ stalls_available_calculated = 0

MainIdle ==
    /\ charger = NoCharger
    /\ charger_ids = <<>>
    /\ next_charger = 1
    /\ overall_results = <<>>
    /\ charger_errors = NoErrors
    /\ charger_error_details = <<>>
    /\ num_usage_docs = 0
    /\ docs_left = 0

\* ---------------------------------------------- Spec: validators.py, one call
Init ==
    /\ usage_data \in UsageSnapshots
    /\ ValIdle
    /\ pc = "idle"
    /\ MainIdle

CallValidateTimezoneData ==
    /\ called = "none" /\ pc = "idle"
    /\ called' = "validate_timezone_data"
    /\ errors' = validate_timezone_data(usage_data)
    /\ UNCHANGED <<usage_data, raised, total_stalls_calculated,
                   stalls_available_calculated, mainVars>>

CallValidateStallsAvailable ==
    /\ called = "none" /\ pc = "idle"
    /\ LET r == validate_stalls_available(usage_data)
       IN  /\ called' = "validate_stalls_available"
           /\ errors' = r.errors
           /\ raised' = r.raised
           /\ total_stalls_calculated' = r.counts.total_stalls_calculated
           /\ stalls_available_calculated' = r.counts.stalls_available_calculated
    /\ UNCHANGED <<usage_data, mainVars>>

\* one pass of the script's usage loop body over the same snapshot
RunMainUsageChecks ==
    /\ called = "none" /\ pc = "idle"
    /\ LET r == main_usage_checks(usage_data)
       IN  /\ called' = "main_usage_checks"
           /\ errors' = r.errors
           /\ raised' = r.raised
    /\ UNCHANGED <<usage_data, total_stalls_calculated,
                   stalls_available_calculated, mainVars>>

Next ==
    \/ CallValidateTimezoneData
    \/ CallValidateStallsAvailable
    \/ RunMainUsageChecks

Spec == Init /\ [][Next]_vars

\* ------------------------------------- MainSpec: validate_charger_usages.main
MainInit ==
    /\ usage_data = NoUsageData
    /\ ValIdle
    /\ pc = "start"
    /\ MainIdle

\* requests.get(charger_ids_url) raises: sys.exit(1)
FetchChargerIdsFails ==
    /\ pc = "start"
    /\ pc' = "exit_fetch_failed"
    /\ UNCHANGED <<usage_data, valVars, charger, charger_ids, next_charger,
                   overall_results, charger_errors, charger_error_details,
                   num_usage_docs, docs_left>>

\* the response holds no charger ids: sys.exit(1)
NoChargerIds ==
    /\ pc = "start"
    /\ pc' = "exit_no_ids"
    /\ charger_ids' = <<>>
    /\ UNCHANGED <<usage_data, valVars, charger, next_charger, overall_results,
                   charger_errors, charger_error_details, num_usage_docs, docs_left>>

FetchChargerIds ==
    /\ pc = "start"
    /\ \E n \in 1..MaxChargers : charger_ids' = [k \in 1..n |-> k]
    /\ overall_results' = <<>>
    /\ next_charger' = 1
    /\ pc' = "charger_loop"
    /\ UNCHANGED <<usage_data, valVars, charger, charger_errors,
                   charger_error_details, num_usage_docs, docs_left>>

\* one iteration of the charger loop in which requests.get(usages_url) raises
FetchUsagesFails ==
    /\ pc = "charger_loop" /\ next_charger <= Len(charger_ids)
    /\ LET charger_id == charger_ids[next_charger]
           ce == [NoErrors EXCEPT !["API Errors"] = @ + 1]
       IN  /\ charger_errors' = ce
           /\ charger_error_details' = <<>>
           /\ num_usage_docs' = 0
           /\ overall_results' =
                Append(overall_results,
                       Result(charger_id, "N/A", <<"N/A">>, 0, ce))
    /\ next_charger' = next_charger + 1
    /\ UNCHANGED <<usage_data, valVars, pc, charger, charger_ids, docs_left>>

\* one iteration of the charger loop in which usageData is missing or empty
NoUsageDataFound ==
    /\ pc = "charger_loop" /\ next_charger <= Len(charger_ids)
    /\ \E c \in Chargers :
        LET charger_id == charger_ids[next_charger]
            pe == pricing_errors(c, charger_id)
            ce == CountAll(NoErrors, pe, 1)
        IN  /\ charger' = c
            /\ charger_errors' = ce
            /\ charger_error_details' = pe
            /\ num_usage_docs' = 0
            /\ overall_results' =
                 Append(overall_results,
                        Result(charger_id, charger_name(c), location_str(c), 0, ce))
    /\ next_charger' = next_charger + 1
    /\ UNCHANGED <<usage_data, valVars, pc, charger_ids, docs_left>>

\* the head of an iteration of the charger loop up to the usage loop, the
\* fetched usageData holding at least one document
StartUsageLoop ==
    /\ pc = "charger_loop" /\ next_charger <= Len(charger_ids)
    /\ \E c \in Chargers, n \in 1..MaxUsageDocs :
        LET charger_id == charger_ids[next_charger]
            pe == pricing_errors(c, charger_id)
        IN  /\ charger' = c
            /\ charger_errors' = CountAll(NoErrors, pe, 1)
            /\ charger_error_details' = pe
            /\ num_usage_docs' = 0
            /\ docs_left' = n
            /\ pc' = "usage_loop"
    /\ UNCHANGED <<usage_data, valVars, charger_ids, next_charger, overall_results>>

\* one iteration of the usage loop, over the next document ud of usage_data_list
ProcessUsageData ==
    /\ pc = "usage_loop" /\ docs_left > 0
    /\ \E ud \in MainUsageDocs :
        LET r == main_usage_checks(ud)
        IN  /\ num_usage_docs' = num_usage_docs + 1
            /\ charger_errors' = CountAll(charger_errors, r.errors, 1)
            /\ charger_error_details' = charger_error_details \o r.errors
            /\ docs_left' = docs_left - 1
            /\ pc' = IF r.raised THEN "raised" ELSE pc
    /\ UNCHANGED <<usage_data, valVars, charger, charger_ids, next_charger,
                   overall_results>>

\* the usage loop is over: the charger's result and the end of the iteration
FinishCharger ==
    /\ pc = "usage_loop" /\ docs_left = 0
    /\ overall_results' =
         Append(overall_results,
                Result(charger_ids[next_charger], charger_name(charger),
                       location_str(charger), num_usage_docs, charger_errors))
    /\ next_charger' = next_charger + 1
    /\ pc' = "charger_loop"
    /\ UNCHANGED <<usage_data, valVars, charger, charger_ids, charger_errors,
                   charger_error_details, num_usage_docs, docs_left>>

\* the charger loop is over: the summary table
Summary ==
    /\ pc = "charger_loop" /\ next_charger > Len(charger_ids)
    /\ pc' = "summary"
    /\ UNCHANGED <<usage_data, valVars, charger, charger_ids, next_charger,
                   overall_results, charger_errors, charger_error_details,
                   num_usage_docs, docs_left>>

MainNext ==
    \/ FetchChargerIdsFails
    \/ NoChargerIds
    \/ FetchChargerIds
    \/ FetchUsagesFails
    \/ NoUsageDataFound
    \/ StartUsageLoop
    \/ ProcessUsageData
    \/ FinishCharger
    \/ Summary

MainSpec == MainInit /\ [][MainNext]_vars

\* ------------------------------------------------------------------ claims
\* the error types of an errors list, in order
Kinds(es) == [k \in DOMAIN es |-> es[k].error_type]

AllMinus2(stall_usage) ==
    \A s \in DOMAIN stall_usage :
        \A j \in DOMAIN stall_usage[s] : stall_usage[s][j] = -2

IntegersReported(ud) == ud.stallsAvailable # None /\ ud.totalStalls # None

StallsCalled == called = "validate_stalls_available"

\* C1: when every connector of every stall of the snapshot has status -2,
\* validate_stalls_available returns the empty errors list, whatever
\* stallsAvailable and totalStalls are reported.
C1_AllMinus2NoErrors ==
    (StallsCalled /\ AllMinus2(usage_data.stallUsage))
        => (~raised /\ errors = <<>>)

C1_Witness ==
    /\ StallsCalled
    /\ usage_data.stallUsage = << <<-2, -2>>, <<-2>> >>
    /\ usage_data.stallsAvailable = Some(2)
    /\ usage_data.totalStalls = None
    /\ ~raised /\ errors = <<>>

\* the stalls with a connector whose status is not -2
ValidStalls(stall_usage) ==
    {s \in DOMAIN stall_usage :
        \E j \in DOMAIN stall_usage[s] : stall_usage[s][j] # -2}

\* the stalls whose first connector with a status other than -2 has status 0
AvailableStalls(stall_usage) ==
    {s \in DOMAIN stall_usage :
        \E j \in DOMAIN stall_usage[s] :
            /\ stall_usage[s][j] = 0
            /\ \A k \in 1..(j - 1) : stall_usage[s][k] = -2}

\* C2: total_stalls_calculated is the number of stalls with a connector whose
\* status is not -2, and stalls_available_calculated the number of stalls
\* whose first such connector has status 0; stalls of -2 connectors only, or
\* of none, add to neither, and later connectors change nothing.
C2_CalculatedCounts ==
    StallsCalled =>
        /\ total_stalls_calculated = Cardinality(ValidStalls(usage_data.stallUsage))
        /\ stalls_available_calculated
             = Cardinality(AvailableStalls(usage_data.stallUsage))

C2_Witness ==
    /\ StallsCalled
    /\ usage_data.stallUsage = << <<-2, 0>>, <<>>, <<-2>> >>
    /\ total_stalls_calculated = 1
    /\ stalls_available_calculated = 1

C2_WitnessOccupiedFirst ==
    /\ StallsCalled
    /\ usage_data.stallUsage = << <<1, 0>> >>
    /\ total_stalls_calculated = 1
    /\ stalls_available_calculated = 0

IfThen(cond, error_type) == IF cond THEN <<error_type>> ELSE <<>>

\* C3: with integer reported values and a connector whose status is not -2,
\* each of the three mismatch errors is in the returned list exactly when its
\* two values differ, in the order available, total, not available; the list
\* has at most four entries.
C3_ComparisonErrors ==
    (/\ StallsCalled
     /\ IntegersReported(usage_data)
     /\ ~AllMinus2(usage_data.stallUsage))
        => LET a == usage_data.stallsAvailable[1]
               t == usage_data.totalStalls[1]
               ac == stalls_available_calculated
               tc == total_stalls_calculated
           IN  /\ ~raised
               /\ Kinds(errors) =
                      IfThen(a # ac, "Stalls Available Mismatch")
                      \o IfThen(t # tc, "Total Stalls Mismatch")
                      \o IfThen(t - a # tc - ac, "Stalls Not Available Mismatch")
               /\ Len(errors) <= 4

C3_Witness ==
    /\ StallsCalled
    /\ usage_data.stallUsage = << <<0>>, <<1>>, <<-2>> >>
    /\ usage_data.stallsAvailable = Some(1)
    /\ usage_data.totalStalls = Some(2)
    /\ ~raised /\ errors = <<>>

\* the case of C4: integers reported, a connector whose status is not -2, the
\* reported total equal to the calculated one, the reported available not
C4_Case ==
    /\ StallsCalled
    /\ IntegersReported(usage_data)
    /\ ~AllMinus2(usage_data.stallUsage)
    /\ usage_data.totalStalls = Some(total_stalls_calculated)
    /\ usage_data.stallsAvailable # Some(stalls_available_calculated)

ReportedCalculated(e, reported, calculated) ==
    e.message.reported = reported /\ e.message.calculated = calculated

\* C4 as claimed: in that case the returned list is exactly one error, a
\* Stalls Available Mismatch whose message holds
\* "Reported <reported>, Calculated <calculated>".
C4_ExactlyOneError ==
    C4_Case =>
        /\ ~raised
        /\ Kinds(errors) = <<"Stalls Available Mismatch">>
        /\ ReportedCalculated(errors[1], usage_data.stallsAvailable,
                              stalls_available_calculated)

\* C4 as amended: in that case the returned list is exactly two errors, a
\* Stalls Available Mismatch whose message holds
\* "Reported <reported>, Calculated <calculated>", then a Stalls Not
\* Available Mismatch.
C4_AvailableAndNotAvailable ==
    C4_Case =>
        /\ ~raised
        /\ Kinds(errors) =
               <<"Stalls Available Mismatch", "Stalls Not Available Mismatch">>
        /\ ReportedCalculated(errors[1], usage_data.stallsAvailable,
                              stalls_available_calculated)

C4_Witness ==
    /\ StallsCalled
    /\ usage_data.stallUsage = << <<0>>, <<1>>, <<-2>> >>
    /\ usage_data.stallsAvailable = Some(2)
    /\ usage_data.totalStalls = Some(2)
    /\ Len(errors) = 2
    /\ ReportedCalculated(errors[1], Some(2), 1)
    /\ errors[2].error_type = "Stalls Not Available Mismatch"

\* the last result of overall_results is that of a charger whose usage fetch
\* failed (no charger record of the model is named 'N/A')
FetchJustFailed ==
    /\ pc = "charger_loop"
    /\ next_charger > 1
    /\ overall_results[next_charger - 1].Name = "N/A"

\* C5: the result of a charger whose usage fetch fails has Total Errors 1,
\* Usage Docs Processed 0, Name and Location 'N/A', and its error list holds
\* exactly one entry, of the API error kind.
C5_FetchFailureResult ==
    FetchJustFailed =>
        LET result == overall_results[next_charger - 1]
        IN  /\ result.TotalErrors = 1
            /\ result.UsageDocsProcessed = 0
            /\ result.Location = <<"N/A">>
            /\ Kinds(charger_error_details) = <<"API Errors">>

\* C6: validate_stalls_available never raises; a snapshot whose
\* stallsAvailable or totalStalls is absent while a connector has a status
\* other than -2 gets an errors list returned, the absent field in it as a
\* mismatch.
C6_NeverRaises ==
    StallsCalled =>
        /\ ~raised
        /\ (~AllMinus2(usage_data.stallUsage) /\ usage_data.stallsAvailable = None)
              => \E k \in DOMAIN errors :
                    errors[k].error_type = "Stalls Available Mismatch"
        /\ (~AllMinus2(usage_data.stallUsage) /\ usage_data.totalStalls = None)
              => \E k \in DOMAIN errors :
                    errors[k].error_type = "Total Stalls Mismatch"

\* C7: validate_timezone_data returns at most one error: one Timezone Missing
\* when the timezone is absent or empty, one Invalid Timezone when it is
\* present and not a recognized name, none when it is recognized; the error
\* carries the snapshot's timestamp, 'Unknown Timestamp' when that is absent.
C7_TimezoneErrors ==
    called = "validate_timezone_data" =>
        LET tz == usage_data.timezone
        IN  /\ Len(errors) <= 1
            /\ (tz = Absent \/ tz = "") => Kinds(errors) = <<"Timezone Missing">>
            /\ (tz # Absent /\ tz # "" /\ tz \notin IanaTimezones)
                  => Kinds(errors) = <<"Invalid Timezone">>
            /\ tz \in IanaTimezones => errors = <<>>
            /\ \A k \in DOMAIN errors :
                  errors[k].timestamp =
                      IF usage_data.timestamp = Absent
                      THEN "Unknown Timestamp" ELSE usage_data.timestamp

C7_Witness ==
    /\ called = "validate_timezone_data"
    /\ usage_data.timezone = "Mars/Phobos"
    /\ usage_data.timestamp = Absent
    /\ Kinds(errors) = <<"Invalid Timezone">>
    /\ errors[1].timestamp = "Unknown Timestamp"

\* C8: for a snapshot, the errors the usage loop of main() appends are, in
\* kind and order, the timezone errors followed by the errors
\* validate_stalls_available returns for the same snapshot.
C8_MainRunsTheValidator ==
    (/\ called = "main_usage_checks"
     /\ ~raised
     /\ ~validate_stalls_available(usage_data).raised)
        => Kinds(errors) =
               Kinds(validate_timezone_data(usage_data))
               \o Kinds(validate_stalls_available(usage_data).errors)

\* C9: with a non-empty charger-id list, whatever each charger's fetch
\* returns, overall_results holds one result per charger handled so far, in
\* list order, and the run goes on until the summary.
C9_EveryChargerGetsAResult ==
    charger_ids # <<>> =>
        /\ [k \in DOMAIN overall_results |-> overall_results[k].ChargerID]
             = SubSeq(charger_ids, 1, Len(overall_results))
        /\ pc = "summary" \/ ENABLED MainNext

\* C10: no Total Stalls Calculation Error is ever emitted, by
\* validate_stalls_available or by the script's copy of the check, so a
\* returned list holds at most three errors.
C10_NoCalculationError ==
    (StallsCalled \/ called = "main_usage_checks") =>
        /\ \A k \in DOMAIN errors :
              errors[k].error_type # "Total Stalls Calculation Error"
        /\ StallsCalled => Len(errors) <= 3

C10_Witness ==
    /\ StallsCalled
    /\ usage_data.stallUsage = << <<0>>, <<1>> >>
    /\ usage_data.stallsAvailable = Some(0)
    /\ usage_data.totalStalls = Some(0)
    /\ ~raised
    /\ Kinds(errors) = <<"Stalls Available Mismatch", "Total Stalls Mismatch",
                         "Stalls Not Available Mismatch">>

====
